---- MODULE Spec2Model ----
(***************************************************************************)
(* CPU simulator: the fetch/execute loop of cpu/cpu.py over the register   *)
(* file, the program counter, the Word Store of cpu/memory_bus.py and the  *)
(* direct-mapped write-back cache of cpu/cache.py.                         *)
(*                                                                         *)
(* Python integers are unbounded, so registers, PC and cache words are     *)
(* plain integers here; only MemoryBus masks to 32 bits.                   *)
(***************************************************************************)
EXTENDS Integers, Sequences, FiniteSets, TLC

(***************************************************************************)
(* Configuration constants (utils/constants.py).  WORD_SIZE, BUS_LENGTH,   *)
(* LINK_REGISTER and the INT16 limits have the values the code and its     *)
(* tests use.  BLOCK_SIZE, CACHE_SIZE and MEMORY_SIZE are scaled down      *)
(* (powers of two, as the cache requires) so that two lines of two words   *)
(* sit in front of a store of MemBlocks blocks: conflicts and evictions    *)
(* happen within a few instructions.  The word is WORD_BITS = 20 bits wide *)
(* instead of 32, because the model checker's integers are 32-bit: the     *)
(* Word Store masks to WORD_BITS bits and an immediate is a signed         *)
(* WORD_BITS-bit value (still wider than the 16-bit offset range).         *)
(***************************************************************************)
WORD_SIZE == 4
BUS_LENGTH == 32
LINK_REGISTER == 7
INT16_MIN == -32768
INT16_MAX == 32767
BLOCK_SIZE == 2
CACHE_SIZE == 16
WORD_BITS == 20

\* Bounds of the model.
MemBlocks == 4      \* blocks of BLOCK_SIZE words in the Word Store
MaxProg == 3        \* longest program loaded (Spec)
MaxMemProg == 4     \* longest program loaded (SpecMem)
MaxArithProg == 2   \* longest program loaded (SpecArith)
MaxStoreProg == 2   \* longest program loaded (SpecStore)
MaxOperandProg == 2 \* longest program loaded (SpecOperands)
MaxFaultProg == 3   \* longest program loaded (SpecFault)
MaxTwinProg == 5    \* longest program loaded (SpecTwin)
MaxCacheCalls == 4  \* calls of Cache.write, read and flush explored (SpecCache)
MaxUnitCalls == 2   \* calls of MemoryBus and Cache methods explored (SpecUnits)
MaxSteps == 5       \* loop iterations explored per machine
MaxCalls == 2       \* calls of execute_instructions explored

MEMORY_SIZE == MemBlocks * BLOCK_SIZE * WORD_SIZE

Pow2(n) == 2 ^ n

\* int(math.log2(n)) for n >= 1
RECURSIVE Log2(_)
Log2(n) == IF n <= 1 THEN 0 ELSE 1 + Log2(n \div 2)

\* Python's x >> n and x << n on unbounded integers (>> rounds down).
Shr(x, n) == x \div Pow2(n)
Shl(x, n) == x * Pow2(n)

\* Python's a & mask for mask = 2^k - 1 (the result is never negative).
BitAnd(x, mask) == x % (mask + 1)

\* Python's a | b on unbounded two's-complement integers.
RECURSIVE BitOr(_, _)
BitOr(a, b) ==
    IF a = 0 THEN b
    ELSE IF b = 0 THEN a
    ELSE IF a = -1 \/ b = -1 THEN -1
    ELSE 2 * BitOr(a \div 2, b \div 2)
         + (IF a % 2 = 1 \/ b % 2 = 1 THEN 1 ELSE 0)

(***************************************************************************)
(* MemoryBus (cpu/memory_bus.py).  storage is a dict with one entry per    *)
(* byte address in range(memory_size), all 0 after construction.           *)
(***************************************************************************)
AddressRange == 0 .. (MEMORY_SIZE - 1)
WORD_MASK == 2 ^ WORD_BITS - 1
ZeroStorage == [a \in AddressRange |-> 0]

\* Mutant of validate_address: only the upper end of the range is checked.
validate_address_upper_only(address) == address < MEMORY_SIZE

\* _validate_address: TRUE when it raises nothing.
validate_address(address) == address \in AddressRange

\* self.storage.get(address, 0)
StorageGet(storage, address) ==
    IF address \in DOMAIN storage THEN storage[address] ELSE 0

\* load_word: [ok, val]; ok = FALSE when _access_memory raises.
load_word(storage, address) ==
    IF validate_address(address)
    THEN [ok |-> TRUE, val |-> StorageGet(storage, address)]
    ELSE [ok |-> FALSE, val |-> 0]

\* Mutant of store_word: the value is stored without the mask.
store_word_unmasked(storage, address, value) ==
    IF validate_address(address)
    THEN [ok |-> TRUE, storage |-> [storage EXCEPT ![address] = value]]
    ELSE [ok |-> FALSE, storage |-> storage]

\* store_word: [ok, storage]; a failed store leaves storage as it was.
store_word(storage, address, value) ==
    IF validate_address(address)
    THEN [ok |-> TRUE,
          storage |-> [storage EXCEPT ![address] = BitAnd(value, WORD_MASK)]]
    ELSE [ok |-> FALSE, storage |-> storage]

(***************************************************************************)
(* Cache (cpu/cache.py).                                                   *)
(***************************************************************************)
cache_lines == CACHE_SIZE \div (BLOCK_SIZE * WORD_SIZE)
Lines == 0 .. (cache_lines - 1)
Offsets == 0 .. (BLOCK_SIZE - 1)
ZeroData == [i \in Offsets |-> 0]

\* Block(tag): a fresh line, invalid and clean, data all zero.
Block(tag) == [tag |-> tag, valid |-> FALSE, dirty |-> FALSE, data |-> ZeroData]

\* Cache(): cache_lines fresh lines.
ColdBlocks == [i \in Lines |-> Block(0)]

get_offset_bits == Log2(BLOCK_SIZE)
get_index_bits == Log2(cache_lines)

\* Mutant of block_base_address: the index is not shifted past the offset bits.
block_base_address_index_unshifted(tag, index) ==
    BitOr(Shl(tag, get_offset_bits + get_index_bits), index) * WORD_SIZE

block_base_address(tag, index) ==
    BitOr(Shl(tag, get_offset_bits + get_index_bits), Shl(index, get_offset_bits))
        * WORD_SIZE

\* Mutant of decode_address: the byte address is decoded as if it were the
\* word address.
decode_address_of_bytes(address) ==
    [tag |-> Shr(address, get_offset_bits + get_index_bits),
     index |-> BitAnd(Shr(address, get_offset_bits), Shl(1, get_index_bits) - 1),
     offset |-> BitAnd(address, Shl(1, get_offset_bits) - 1)]

\* decode_address: [tag, index, offset]; address // word_size rounds down.
decode_address(address) ==
    LET word_address == address \div WORD_SIZE
        offset_mask == Shl(1, get_offset_bits) - 1
        index_mask == Shl(1, get_index_bits) - 1
    IN  [tag |-> Shr(word_address, get_offset_bits + get_index_bits),
         index |-> BitAnd(Shr(word_address, get_offset_bits), index_mask),
         offset |-> BitAnd(word_address, offset_mask)]

hit_or_miss(block, tag) == block.valid /\ block.tag = tag

\* _write_back: store data[i], i = 0, 1, ..., stopping at the first store that
\* raises; the line is marked clean only when every store succeeded.
\* [ok, storage, block].
RECURSIVE write_back_from(_, _, _, _)
write_back_store(i, block, base_address, storage, s) ==
    IF s.ok
    THEN write_back_from(i + 1, block, base_address, s.storage)
    ELSE [ok |-> FALSE, storage |-> storage, block |-> block]

write_back_from(i, block, base_address, storage) ==
    IF i = BLOCK_SIZE
    THEN [ok |-> TRUE, storage |-> storage, block |-> [block EXCEPT !.dirty = FALSE]]
    ELSE write_back_store(i, block, base_address, storage,
             store_word(storage, base_address + i * WORD_SIZE, block.data[i]))

\* Mutant of write_back: only the first word of the line is stored.
write_back_first_word_only(block, base_address, storage) ==
    write_back_store(BLOCK_SIZE - 1, block, base_address, storage,
        store_word(storage, base_address, block.data[0]))

write_back(block, base_address, storage) ==
    write_back_from(0, block, base_address, storage)

\* The loading loop of replace_block: [ok, data].
RECURSIVE load_block_from(_, _, _, _)
load_block_word(i, data, new_base, storage, w) ==
    IF w.ok
    THEN load_block_from(i + 1, [data EXCEPT ![i] = w.val], new_base, storage)
    ELSE [ok |-> FALSE, data |-> data]

load_block_from(i, data, new_base, storage) ==
    IF i = BLOCK_SIZE
    THEN [ok |-> TRUE, data |-> data]
    ELSE load_block_word(i, data, new_base, storage,
             load_word(storage, new_base + i * WORD_SIZE))

\* Mutant of install_block: the new line is installed with the zero data of a
\* fresh Block, the words loaded from the Word Store are dropped.
install_block_unloaded(blocks, tag, index, storage, ld) ==
    IF ld.ok
    THEN [ok |-> TRUE,
          blocks |-> [blocks EXCEPT ![index] =
                         [tag |-> tag, valid |-> TRUE, dirty |-> FALSE,
                          data |-> ZeroData]],
          storage |-> storage]
    ELSE [ok |-> FALSE, blocks |-> blocks, storage |-> storage]

\* replace_block, its last part: the new line, loaded as ld, is installed only
\* when every word was loaded.
install_block(blocks, tag, index, storage, ld) ==
    IF ld.ok
    THEN [ok |-> TRUE,
          blocks |-> [blocks EXCEPT ![index] =
                         [tag |-> tag, valid |-> TRUE, dirty |-> FALSE,
                          data |-> ld.data]],
          storage |-> storage]
    ELSE [ok |-> FALSE, blocks |-> blocks, storage |-> storage]

\* replace_block after the write-back wb of the old line: the old line was
\* written back in place, so it stays clean when the load that follows raises.
load_new_block(blocks, tag, index, wb) ==
    IF wb.ok
    THEN install_block([blocks EXCEPT ![index] = wb.block], tag, index, wb.storage,
             load_block_from(0, ZeroData, block_base_address(tag, index),
                             wb.storage))
    ELSE [ok |-> FALSE, blocks |-> [blocks EXCEPT ![index] = wb.block],
          storage |-> wb.storage]

\* Mutant of replace_block: the old line is dropped without a write-back.
replace_block_no_write_back(blocks, tag, index, storage) ==
    load_new_block(blocks, tag, index,
        [ok |-> TRUE, storage |-> storage, block |-> blocks[index]])

\* replace_block: [ok, blocks, storage].
replace_block(blocks, tag, index, storage) ==
    load_new_block(blocks, tag, index,
        IF blocks[index].valid /\ blocks[index].dirty
        THEN write_back(blocks[index],
                        block_base_address(blocks[index].tag, index), storage)
        ELSE [ok |-> TRUE, storage |-> storage, block |-> blocks[index]])

\* _access_block at the decoded address d: [ok, blocks, storage, index, offset].
access_decoded(blocks, d, storage, r) ==
    [ok |-> r.ok, blocks |-> r.blocks, storage |-> r.storage,
     index |-> d.index, offset |-> d.offset]

access_line(blocks, d, storage) ==
    access_decoded(blocks, d, storage,
        IF hit_or_miss(blocks[d.index], d.tag)
        THEN [ok |-> TRUE, blocks |-> blocks, storage |-> storage]
        ELSE replace_block(blocks, d.tag, d.index, storage))

access_block(blocks, address, storage) ==
    access_line(blocks, decode_address(address), storage)

\* Cache.read: [ok, blocks, storage, val]; val is the one-element list
\* block.data[offset : offset + 1].
read_block(a) ==
    [ok |-> a.ok, blocks |-> a.blocks, storage |-> a.storage,
     val |-> IF a.ok THEN <<a.blocks[a.index].data[a.offset]>> ELSE <<>>]

read(blocks, address, storage) == read_block(access_block(blocks, address, storage))

\* Cache.write: [ok, blocks, storage]; the value is stored unmasked.
\* Mutant of write_block: the value goes to word 0 of the line.
write_block_first_word(a, value) ==
    IF a.ok
    THEN [ok |-> TRUE,
          blocks |-> [a.blocks EXCEPT ![a.index] =
                         [@ EXCEPT !.data[0] = value, !.dirty = TRUE]],
          storage |-> a.storage]
    ELSE [ok |-> FALSE, blocks |-> a.blocks, storage |-> a.storage]

\* Mutant of write_block: write-through, the word goes to the Word Store too.
write_block_through(a, value) ==
    IF a.ok
    THEN [ok |-> TRUE,
          blocks |-> [a.blocks EXCEPT ![a.index] =
                         [@ EXCEPT !.data[a.offset] = value, !.dirty = TRUE]],
          storage |-> store_word(a.storage,
                          block_base_address(a.blocks[a.index].tag, a.index)
                              + a.offset * WORD_SIZE,
                          value).storage]
    ELSE [ok |-> FALSE, blocks |-> a.blocks, storage |-> a.storage]

write_block(a, value) ==
    IF a.ok
    THEN [ok |-> TRUE,
          blocks |-> [a.blocks EXCEPT ![a.index] =
                         [@ EXCEPT !.data[a.offset] = value, !.dirty = TRUE]],
          storage |-> a.storage]
    ELSE [ok |-> FALSE, blocks |-> a.blocks, storage |-> a.storage]

write(blocks, address, value, storage) ==
    write_block(access_block(blocks, address, storage), value)

\* Cache.flush: lines 0, 1, ... in order; a valid dirty line is written back,
\* then made clean, invalid and zero.  [ok, blocks, storage].
RECURSIVE flush_from(_, _, _)
\* Mutant of flush_line: the loop ends after the first line it wrote back.
flush_line_stops(index, blocks, wb) ==
    [ok |-> wb.ok,
     blocks |-> [blocks EXCEPT ![index] =
                    IF wb.ok
                    THEN [wb.block EXCEPT !.dirty = FALSE, !.valid = FALSE,
                                          !.data = ZeroData]
                    ELSE wb.block],
     storage |-> wb.storage]

flush_line(index, blocks, wb) ==
    IF wb.ok
    THEN flush_from(index + 1,
                    [blocks EXCEPT ![index] =
                        [wb.block EXCEPT !.dirty = FALSE, !.valid = FALSE,
                                         !.data = ZeroData]],
                    wb.storage)
    ELSE [ok |-> FALSE, blocks |-> [blocks EXCEPT ![index] = wb.block],
          storage |-> wb.storage]

flush_from(index, blocks, storage) ==
    IF index = cache_lines
    THEN [ok |-> TRUE, blocks |-> blocks, storage |-> storage]
    ELSE IF blocks[index].valid /\ blocks[index].dirty
    THEN flush_line(index, blocks,
             write_back(blocks[index],
                        block_base_address(blocks[index].tag, index), storage))
    ELSE flush_from(index + 1, blocks, storage)

\* Mutant of flush: the dirty lines are cleared without a write-back.
flush_without_write_back(blocks, storage) ==
    [ok |-> TRUE,
     blocks |-> [i \in Lines |->
                    IF blocks[i].valid /\ blocks[i].dirty
                    THEN [blocks[i] EXCEPT !.dirty = FALSE, !.valid = FALSE,
                                           !.data = ZeroData]
                    ELSE blocks[i]],
     storage |-> storage]

flush(blocks, storage) == flush_from(0, blocks, storage)

(***************************************************************************)
(* CPU (cpu/cpu.py).                                                       *)
(*                                                                         *)
(* An instruction is [op, args]: the opcode token and the argument tokens  *)
(* the loader produced.  A token is represented by the integer the         *)
(* handlers parse out of it: the register token "R<n>" by n (int(arg[1:])),*)
(* a decimal token by its value.  The two tokens of a memory instruction,  *)
(* "R<rt>" and "<offset>(R<rs>)", are the three integers <<rt, offset, rs>>*)
(* EmptyInstruction is the empty token list that the loader produces for a *)
(* line holding only commas.                                               *)
(***************************************************************************)
VARIABLES
    registers,          \* self.registers: [0 .. 31 -> Int]
    pc,                 \* self.pc
    load_instructions,  \* self.load_instructions: a sequence of instructions
    cache,              \* self.cache: [attached, blocks]; attached = FALSE is None
    memory,             \* self.memory.storage
    halted,             \* self.halted
    ctl,                \* "idle": outside execute_instructions; "loop": at the
                        \* head of its while loop; "crashed": an exception left it
    calls,              \* calls of execute_instructions so far
    steps,              \* loop iterations so far
    last,               \* the last loop iteration: what was fetched, from which
                        \* state (and which stored), and how it ended
    stored              \* per address, <<the low bits of the value the last
                        \* successful SW to it stored>> (NeverStored if none)

vars == <<registers, pc, load_instructions, cache, memory, halted,
          ctl, calls, steps, last, stored>>

Instr(op, args) == [op |-> op, args |-> args]
EmptyInstruction == Instr("", <<>>)
\* A cell of the program that no fetch has read yet: its content is fixed by
\* the first fetch that reads it and never changes afterwards.
Unread == Instr("?", <<>>)

RegisterIndices == 0 .. (BUS_LENGTH - 1)
NoCache == [attached |-> FALSE, blocks |-> ColdBlocks]
NewCache == [attached |-> TRUE, blocks |-> ColdBlocks]
NeverStored == <<>>

\* The machine state a handler works on.
MachineState == [registers |-> registers, pc |-> pc, cache |-> cache,
                 memory |-> memory, halted |-> halted]

Done(s) == [ok |-> TRUE, s |-> s]
Raise(s) == [ok |-> FALSE, s |-> s]

\* Python's list[i]: i in [-n, n) is accepted, a negative i counts from the end.
PyIndexOk(i, n) == -n <= i /\ i < n
PyIndex(i, n) == IF i < 0 THEN i + n ELSE i

\* _valid_registers(*indices, allow_r0)
valid_registers(indices, allow_r0) ==
    /\ \A idx \in indices : 0 <= idx /\ idx < BUS_LENGTH
    /\ (allow_r0 \/ 0 \notin indices)

\* Mutant of validate_offset: the range check admits INT16_MAX + 1.
validate_offset_one_past(offset, word_size) ==
    /\ word_size > 0
    /\ ~(offset % word_size # 0
         \/ ~(INT16_MIN <= offset /\ offset <= INT16_MAX + 1))

\* _validate_offset: TRUE when it raises nothing.
validate_offset(offset, word_size) ==
    /\ word_size > 0
    /\ ~(offset % word_size # 0 \/ ~(INT16_MIN <= offset /\ offset <= INT16_MAX))

\* _validate_immediate_value: TRUE when the value is in the signed word range.
validate_immediate_value(value) ==
    -(2 ^ (WORD_BITS - 1)) <= value /\ value <= 2 ^ (WORD_BITS - 1) - 1

\* _parse_args: [ok, a1, a2, a3]; it raises when a token is missing or the
\* immediate is out of range.
parse_args(args, imm) ==
    IF Len(args) < 3 \/ (imm /\ ~validate_immediate_value(args[3]))
    THEN [ok |-> FALSE, a1 |-> 0, a2 |-> 0, a3 |-> 0]
    ELSE [ok |-> TRUE, a1 |-> args[1], a2 |-> args[2], a3 |-> args[3]]

\* _parse_memory_args: [ok, rt, rs, offset].
parse_memory_args(args) ==
    IF Len(args) # 3
    THEN [ok |-> FALSE, rt |-> 0, rs |-> 0, offset |-> 0]
    ELSE [ok |-> TRUE, rt |-> args[1], rs |-> args[3], offset |-> args[2]]

\* operator.add / operator.sub
ApplyOp(op_name, x, y) == IF op_name \in {"ADD", "ADDI"} THEN x + y ELSE x - y

arithmetic_parsed(s, p, op_name, immediate) ==
    IF ~p.ok THEN Raise(s)
    ELSE IF ~immediate /\ ~PyIndexOk(p.a3, BUS_LENGTH) THEN Raise(s)
    ELSE IF ~valid_registers({p.a2, p.a1}, FALSE) THEN Raise(s)
    ELSE Done([s EXCEPT !.registers[p.a1] =
                  ApplyOp(op_name, s.registers[p.a2],
                          IF immediate THEN p.a3
                          ELSE s.registers[PyIndex(p.a3, BUS_LENGTH)])])

\* args are dest, src and rt (or the immediate).
execute_arithmetic(s, args, op_name, immediate) ==
    arithmetic_parsed(s, parse_args(args, immediate), op_name, immediate)

slt_parsed(s, p) ==
    IF ~p.ok THEN Raise(s)
    ELSE IF ~valid_registers({p.a2, p.a3, p.a1}, FALSE) THEN Raise(s)
    ELSE Done([s EXCEPT !.registers[p.a1] =
                  IF s.registers[p.a2] < s.registers[p.a3] THEN 1 ELSE 0])

\* args are dest, src and rt.
execute_slt(s, args) == slt_parsed(s, parse_args(args, FALSE))

\* Mutant of bne_parsed: the word offset is added to PC unscaled.
bne_parsed_unscaled(s, p) ==
    IF ~p.ok THEN Raise(s)
    ELSE IF ~valid_registers({p.a1, p.a2}, FALSE) THEN Raise(s)
    ELSE IF ~validate_offset(p.a3 * WORD_SIZE, WORD_SIZE) THEN Raise(s)
    ELSE IF s.registers[p.a1] # s.registers[p.a2]
    THEN Done([s EXCEPT !.pc = s.pc + WORD_SIZE + p.a3])
    ELSE Done(s)

bne_parsed(s, p) ==
    IF ~p.ok THEN Raise(s)
    ELSE IF ~valid_registers({p.a1, p.a2}, FALSE) THEN Raise(s)
    ELSE IF ~validate_offset(p.a3 * WORD_SIZE, WORD_SIZE) THEN Raise(s)
    ELSE IF s.registers[p.a1] # s.registers[p.a2]
    THEN Done([s EXCEPT !.pc = s.pc + WORD_SIZE + p.a3 * WORD_SIZE])
    ELSE Done(s)

\* args are rs, rt and the offset in words.
execute_bne(s, args) == bne_parsed(s, parse_args(args, TRUE))

\* str.isdigit() of a token: every character is a digit.  A token is held as
\* the integer it denotes, and a token that isdigit() rejects (a sign, a
\* letter) as a negative integer.
IsDigit(token) == token >= 0

\* Mutant of jump_to: PC is set first, so the link is taken from the new PC.
jump_to_links_new_pc(s, target_index, link) ==
    [s EXCEPT !.registers[LINK_REGISTER] =
                  IF link THEN target_index * WORD_SIZE + WORD_SIZE ELSE @,
              !.pc = target_index * WORD_SIZE]

\* The two assignments of execute_jump once the target is accepted.
jump_to(s, target_index, link) ==
    [s EXCEPT !.registers[LINK_REGISTER] =
                  IF link THEN s.pc + WORD_SIZE ELSE @,
              !.pc = target_index * WORD_SIZE]

\* Mutant of execute_jump: the link register is written before the target is
\* checked.
execute_jump_links_first(s, args, link, program_length) ==
    IF Len(args) < 1 THEN Raise(s)
    ELSE IF ~IsDigit(args[1]) THEN Raise(s)
    ELSE IF ~(0 <= args[1] /\ args[1] < program_length)
    THEN Raise([s EXCEPT !.registers[LINK_REGISTER] =
                             IF link THEN s.pc + WORD_SIZE ELSE @])
    ELSE Done(jump_to(s, args[1], link))

\* Mutant of execute_jump: the range check accepts program_length itself.
execute_jump_inclusive(s, args, link, program_length) ==
    IF Len(args) < 1 THEN Raise(s)
    ELSE IF ~IsDigit(args[1]) THEN Raise(s)
    ELSE IF ~(0 <= args[1] /\ args[1] <= program_length) THEN Raise(s)
    ELSE Done(jump_to(s, args[1], link))

execute_jump(s, args, link, program_length) ==
    IF Len(args) < 1 THEN Raise(s)
    ELSE IF ~IsDigit(args[1]) THEN Raise(s)
    ELSE IF ~(0 <= args[1] /\ args[1] < program_length) THEN Raise(s)
    ELSE Done(jump_to(s, args[1], link))

\* A cache access r of the handler: the cache and the Word Store as it left them.
AfterAccess(s, r) == [s EXCEPT !.cache.blocks = r.blocks, !.memory = r.storage]

load_from_cache(s, rt_idx, r) ==
    IF r.ok
    THEN Done([AfterAccess(s, r) EXCEPT !.registers[rt_idx] = r.val[1]])
    ELSE Raise(AfterAccess(s, r))

load_from_memory(s, rt_idx, w) ==
    IF w.ok THEN Done([s EXCEPT !.registers[rt_idx] = w.val]) ELSE Raise(s)

store_to_cache(s, r) ==
    IF r.ok THEN Done(AfterAccess(s, r)) ELSE Raise(AfterAccess(s, r))

store_to_memory(s, w) ==
    IF w.ok THEN Done([s EXCEPT !.memory = w.storage]) ELSE Raise(s)

memory_action(s, rt_idx, address, code) ==
    IF code = "LW"
    THEN IF s.cache.attached
         THEN load_from_cache(s, rt_idx, read(s.cache.blocks, address, s.memory))
         ELSE load_from_memory(s, rt_idx, load_word(s.memory, address))
    ELSE IF code = "SW"
    THEN IF s.cache.attached
         THEN store_to_cache(s, write(s.cache.blocks, address,
                                      s.registers[rt_idx], s.memory))
         ELSE store_to_memory(s, store_word(s.memory, address,
                                            s.registers[rt_idx]))
    ELSE Raise(s)

\* Mutant of execute_memory_parsed: the offset is left out of the address.
execute_memory_parsed_no_offset(s, p, code) ==
    IF ~p.ok THEN Raise(s)
    ELSE IF ~validate_offset(p.offset, WORD_SIZE) THEN Raise(s)
    ELSE IF ~valid_registers({p.rt, p.rs}, TRUE) THEN Raise(s)
    ELSE memory_action(s, p.rt, s.registers[p.rs], code)

execute_memory_parsed(s, p, code) ==
    IF ~p.ok THEN Raise(s)
    ELSE IF ~validate_offset(p.offset, WORD_SIZE) THEN Raise(s)
    ELSE IF ~valid_registers({p.rt, p.rs}, TRUE) THEN Raise(s)
    ELSE memory_action(s, p.rt, s.registers[p.rs] + p.offset, code)

execute_memory_action(s, args, code) ==
    execute_memory_parsed(s, parse_memory_args(args), code)

\* The flush of an attached cache, as execute_cache and HALT call it: [ok, s].
flushed(s, f) ==
    [ok |-> f.ok, s |-> [s EXCEPT !.cache.blocks = f.blocks, !.memory = f.storage]]

FlushCache(s) == flushed(s, flush(s.cache.blocks, s.memory))

disable_cache(f) == IF f.ok THEN Done([f.s EXCEPT !.cache = NoCache]) ELSE Raise(f.s)

\* Mutant of execute_cache: CACHE 1 builds a new Cache also when one is attached.
execute_cache_always_new(s, code) ==
    IF ~IsDigit(code) \/ code \notin 0 .. 2 THEN Raise(s)
    ELSE IF code = 0
    THEN IF s.cache.attached THEN disable_cache(FlushCache(s)) ELSE Done(s)
    ELSE IF code = 1
    THEN Done([s EXCEPT !.cache = NewCache])
    ELSE IF s.cache.attached THEN FlushCache(s) ELSE Done(s)

\* Mutant of execute_cache: CACHE 2 raises when no cache is attached.
execute_cache_flush_needs_cache(s, code) ==
    IF ~IsDigit(code) \/ code \notin 0 .. 2 THEN Raise(s)
    ELSE IF code = 0
    THEN IF s.cache.attached THEN disable_cache(FlushCache(s)) ELSE Done(s)
    ELSE IF code = 1
    THEN IF ~s.cache.attached THEN Done([s EXCEPT !.cache = NewCache]) ELSE Done(s)
    ELSE IF s.cache.attached THEN FlushCache(s) ELSE Raise(s)

\* Mutant of execute_cache: the code is not validated, and every code other
\* than 0 and 1 flushes.
execute_cache_unvalidated(s, code) ==
    IF code = 0
    THEN IF s.cache.attached THEN disable_cache(FlushCache(s)) ELSE Done(s)
    ELSE IF code = 1
    THEN IF ~s.cache.attached THEN Done([s EXCEPT !.cache = NewCache]) ELSE Done(s)
    ELSE IF s.cache.attached THEN FlushCache(s) ELSE Done(s)

execute_cache(s, code) ==
    IF ~IsDigit(code) \/ code \notin 0 .. 2 THEN Raise(s)
    ELSE IF code = 0
    THEN IF s.cache.attached THEN disable_cache(FlushCache(s)) ELSE Done(s)
    ELSE IF code = 1
    THEN IF ~s.cache.attached THEN Done([s EXCEPT !.cache = NewCache]) ELSE Done(s)
    ELSE IF s.cache.attached THEN FlushCache(s) ELSE Done(s)

\* case "HALT" of dispatch_instruction.
set_halted(f) == IF f.ok THEN Done([f.s EXCEPT !.halted = TRUE]) ELSE Raise(f.s)

execute_halt(s) == set_halted(IF s.cache.attached THEN FlushCache(s) ELSE Done(s))

dispatch_instruction(s, opcode, args, program_length) ==
    CASE opcode = "ADD"   -> execute_arithmetic(s, args, opcode, FALSE)
      [] opcode = "ADDI"  -> execute_arithmetic(s, args, opcode, TRUE)
      [] opcode = "SUB"   -> execute_arithmetic(s, args, opcode, FALSE)
      [] opcode = "SUBI"  -> execute_arithmetic(s, args, opcode, TRUE)
      [] opcode = "SLT"   -> execute_slt(s, args)
      [] opcode = "BNE"   -> execute_bne(s, args)
      [] opcode = "J"     -> execute_jump(s, args, FALSE, program_length)
      [] opcode = "JAL"   -> execute_jump(s, args, TRUE, program_length)
      [] opcode = "LW"    -> execute_memory_action(s, args, opcode)
      [] opcode = "SW"    -> execute_memory_action(s, args, opcode)
      [] opcode = "CACHE" -> IF Len(args) < 1 THEN Raise(s)
                             ELSE execute_cache(s, args[1])
      [] opcode = "HALT"  -> execute_halt(s)
      [] opcode = "NOP"   -> Done(s)
      [] OTHER            -> Raise(s)

(***************************************************************************)
(* execute_instructions: one action per pass through its while loop.       *)
(***************************************************************************)
\* Mutant of loop_condition: the halted flag is not looked at.
loop_condition_ignores_halted(h, p, program_length) ==
    p < program_length * WORD_SIZE

\* The condition of the while loop.
loop_condition(h, p, program_length) == ~h /\ p < program_length * WORD_SIZE

\* Mutant of complete_instruction: register 0 is not reset.
complete_instruction_no_reset(s, current_pc) ==
    [s EXCEPT !.pc = IF s.pc = current_pc THEN s.pc + WORD_SIZE ELSE s.pc]

\* Mutant of complete_instruction: PC does not advance once halted is set.
complete_instruction_halt_stays(s, current_pc) ==
    [s EXCEPT !.registers[0] = 0,
              !.pc = IF s.pc = current_pc /\ ~s.halted
                     THEN s.pc + WORD_SIZE ELSE s.pc]

\* After a dispatch that raised nothing: register 0 is reset and PC advances
\* unless the handler moved it.
complete_instruction(s, current_pc) ==
    [s EXCEPT !.registers[0] = 0,
              !.pc = IF s.pc = current_pc THEN s.pc + WORD_SIZE ELSE s.pc]

\* Mutant of handle_error: the halted flag is not set.
handle_error_no_halt(s) == s

\* The except clause: whatever the handler did before it raised stays.
handle_error(s) == [s EXCEPT !.halted = TRUE]

\* The effective address of a memory instruction in state s.
EffectiveAddress(s, instr) == s.registers[instr.args[3]] + instr.args[2]

\* stored after a pass: a successful SW records the low 32 bits it stored.
RecordStore(s, instr, ok) ==
    IF ok /\ instr.op = "SW" /\ EffectiveAddress(s, instr) \in AddressRange
    THEN [stored EXCEPT ![EffectiveAddress(s, instr)] =
             <<BitAnd(s.registers[instr.args[1]], WORD_MASK)>>]
    ELSE stored

NoPass == [result |-> "none", instr |-> Unread, pc |-> 0, before |-> <<>>,
           stored |-> [a \in AddressRange |-> NeverStored]]

\* A pass whose fetch raises: the exception leaves execute_instructions,
\* nothing else changes.
Crash(instr) ==
    /\ ctl' = "crashed"
    /\ last' = [result |-> "crash", instr |-> instr, pc |-> pc,
                before |-> <<MachineState>>, stored |-> stored]
    /\ UNCHANGED <<registers, pc, cache, memory, halted, stored>>

\* The end of a pass whose dispatch ended as r (from state s, at PC s.pc).
EndPass(s, r) == IF r.ok THEN complete_instruction(r.s, s.pc) ELSE handle_error(r.s)

Commit(s, instr, ok, t) ==
    /\ registers' = t.registers
    /\ pc' = t.pc
    /\ cache' = t.cache
    /\ memory' = t.memory
    /\ halted' = t.halted
    /\ ctl' = IF ok THEN "loop" ELSE "idle"
    /\ last' = [result |-> IF ok THEN "ok" ELSE "fault", instr |-> instr,
                pc |-> s.pc, before |-> <<s>>, stored |-> stored]
    /\ stored' = RecordStore(s, instr, ok)

Dispatched(s, instr, r) == Commit(s, instr, r.ok, EndPass(s, r))

\* A pass that fetched instr and dispatched it.
Execute(instr) ==
    Dispatched(MachineState, instr,
        dispatch_instruction(MachineState, instr.op, instr.args,
                             Len(load_instructions)))

\* One pass through the loop.  menu: the instructions the loader may have put
\* into a cell that is read for the first time.
Step(menu) ==
    /\ ctl = "loop"
    /\ loop_condition(halted, pc, Len(load_instructions))
    /\ steps < MaxSteps
    /\ steps' = steps + 1
    /\ UNCHANGED calls
    /\ LET n == Len(load_instructions)
           instr_index == pc \div WORD_SIZE
       IN  IF ~PyIndexOk(instr_index, n)
           THEN Crash(Unread) /\ UNCHANGED load_instructions
           ELSE LET cell == PyIndex(instr_index, n) + 1
                IN  \E instr \in (IF load_instructions[cell] = Unread
                                  THEN menu ELSE {load_instructions[cell]}) :
                        /\ load_instructions' =
                               [load_instructions EXCEPT ![cell] = instr]
                        /\ IF instr = EmptyInstruction
                           THEN Crash(instr)
                           ELSE Execute(instr)

\* A caller calls execute_instructions.
Enter ==
    /\ ctl = "idle"
    /\ calls < MaxCalls
    /\ ctl' = "loop"
    /\ calls' = calls + 1
    /\ UNCHANGED <<registers, pc, load_instructions, cache, memory, halted,
                   steps, last, stored>>

\* The loop condition is false: execute_instructions returns.
Return ==
    /\ ctl = "loop"
    /\ ~loop_condition(halted, pc, Len(load_instructions))
    /\ ctl' = "idle"
    /\ UNCHANGED <<registers, pc, load_instructions, cache, memory, halted,
                   calls, steps, last, stored>>

(***************************************************************************)
(* Initial states: a constructed CPU whose registers a caller may have set *)
(* (register 0 left at 0), whose Word Store the memory initializer may     *)
(* have written, and whose program the loader has loaded.                  *)
(***************************************************************************)
RegisterFile(r1, r2, r3) ==
    [i \in RegisterIndices |->
        IF i = 1 THEN r1 ELSE IF i = 2 THEN r2 ELSE IF i = 3 THEN r3 ELSE 0]

InitRegisterFiles ==
    {RegisterFile(0, 0, 0), RegisterFile(0, 5, 10), RegisterFile(5, 5, -1)}

\* For the memory programs: a word-aligned and an unaligned base address in
\* register 1, a positive and a negative value to store.
InitMemRegisterFiles == {RegisterFile(0, 5, -1), RegisterFile(5, 7, 10)}

InitStorages == {ZeroStorage, [ZeroStorage EXCEPT ![0] = 15, ![16] = 3]}

\* The instructions of the programs of Spec: every opcode, and every kind of
\* fault.
Menu ==
    { Instr("ADD", <<1, 2, 3>>),
      Instr("ADD", <<0, 2, 3>>),
      Instr("ADD", <<1, 2, 32>>),
      Instr("ADDI", <<1, 1, 4>>),
      Instr("ADDI", <<1, 1, 2 ^ (WORD_BITS - 1)>>),
      Instr("SUB", <<3, 2, 3>>),
      Instr("SLT", <<3, 1, 2>>),
      Instr("BNE", <<1, 2, 1>>),
      Instr("BNE", <<1, 2, -1>>),
      Instr("BNE", <<1, 2, -3>>),
      Instr("BNE", <<1, 2, 8192>>),
      Instr("J", <<0>>),
      Instr("J", <<2>>),
      Instr("J", <<3>>),
      Instr("J", <<-1>>),
      Instr("JAL", <<1>>),
      Instr("LW", <<0, 0, 1>>),
      Instr("LW", <<2, 3, 1>>),
      Instr("LW", <<2, -4, 1>>),
      Instr("SW", <<2, 0, 1>>),
      Instr("CACHE", <<1>>),
      Instr("CACHE", <<3>>),
      Instr("HALT", <<>>),
      Instr("NOP", <<>>),
      Instr("INVALID_OP", <<1, 2>>),
      EmptyInstruction }

\* The instructions of the programs of SpecMem: loads and stores that hit,
\* miss, conflict (addresses 0 and 16 or 20 share line 0) and fall outside
\* the Word Store, and the cache switches.
MemMenu ==
    { Instr("LW", <<2, 0, 1>>),
      Instr("LW", <<2, 20, 1>>),
      Instr("SW", <<2, 0, 1>>),
      Instr("SW", <<3, 0, 1>>),
      Instr("SW", <<3, 20, 1>>),
      Instr("SW", <<2, MEMORY_SIZE, 1>>),
      Instr("CACHE", <<0>>),
      Instr("CACHE", <<1>>),
      Instr("CACHE", <<2>>),
      Instr("HALT", <<>>) }

\* The instructions of the programs of SpecArith: the four arithmetic
\* opcodes over register operands inside and outside 0 .. 31 (register 0 as
\* destination, as source and as second operand), immediates at and past the
\* ends of the signed word range, and the other instructions that write a
\* register.
ArithMenu ==
    { Instr("ADD", <<1, 2, 3>>),
      Instr("ADD", <<3, 3, 3>>),
      Instr("ADD", <<0, 2, 3>>),
      Instr("ADD", <<1, 0, 2>>),
      Instr("ADD", <<1, 2, 0>>),
      Instr("ADD", <<1, 2, 32>>),
      Instr("ADD", <<1, 2, -1>>),
      Instr("ADD", <<1, 32, 2>>),
      Instr("ADD", <<32, 1, 2>>),
      Instr("ADD", <<-1, 2, 3>>),
      Instr("SUB", <<3, 2, 3>>),
      Instr("SUB", <<31, 3, 1>>),
      Instr("SUB", <<1, -1, 2>>),
      Instr("ADDI", <<1, 1, 4>>),
      Instr("ADDI", <<2, 0, 4>>),
      Instr("ADDI", <<0, 1, 1>>),
      Instr("ADDI", <<1, 1, 2 ^ (WORD_BITS - 1) - 1>>),
      Instr("ADDI", <<1, 1, 2 ^ (WORD_BITS - 1)>>),
      Instr("SUBI", <<2, 2, 1>>),
      Instr("SUBI", <<3, 1, -(2 ^ (WORD_BITS - 1))>>),
      Instr("SUBI", <<2, 32, 1>>),
      Instr("SLT", <<3, 1, 2>>),
      Instr("JAL", <<0>>),
      Instr("LW", <<2, 0, 1>>),
      Instr("SW", <<3, 0, 1>>),
      Instr("HALT", <<>>) }

\* For the programs of SpecStore: a word-aligned base address with registers 1
\* and 2 different and a negative value in register 3, and an unaligned base
\* address with registers 1 and 2 equal.
InitStoreRegisterFiles == {RegisterFile(0, 5, -1), RegisterFile(5, 5, 10)}

\* The instructions of the programs of SpecStore: loads and stores with
\* register 0 as Rt and as Rs, at addresses inside and outside the Word Store,
\* with offsets that are misaligned or just outside the signed 16-bit range,
\* and branches whose scaled offset is at and just past the ends of that
\* range.
StoreMenu ==
    { Instr("LW", <<2, 0, 1>>),
      Instr("LW", <<0, 0, 1>>),
      Instr("LW", <<3, 16, 0>>),
      Instr("LW", <<2, -4, 1>>),
      Instr("LW", <<2, MEMORY_SIZE, 1>>),
      Instr("LW", <<2, 3, 1>>),
      Instr("LW", <<2, 32768, 1>>),
      Instr("SW", <<2, 0, 1>>),
      Instr("SW", <<3, 0, 1>>),
      Instr("SW", <<0, 0, 0>>),
      Instr("SW", <<3, 16, 0>>),
      Instr("SW", <<2, MEMORY_SIZE, 1>>),
      Instr("SW", <<2, -2, 1>>),
      Instr("SW", <<2, -32772, 1>>),
      Instr("BNE", <<1, 2, 8191>>),
      Instr("BNE", <<1, 2, 8192>>),
      Instr("BNE", <<1, 2, -8193>>),
      Instr("CACHE", <<1>>),
      Instr("HALT", <<>>) }

InitWith(max_program, register_files) ==
    /\ registers \in register_files
    /\ pc = 0
    /\ load_instructions \in {[i \in 1 .. n |-> Unread] : n \in 0 .. max_program}
    /\ cache = NoCache
    /\ memory \in InitStorages
    /\ halted = FALSE
    /\ ctl = "idle"
    /\ calls = 0
    /\ steps = 0
    /\ last = NoPass
    /\ stored = [a \in AddressRange |-> NeverStored]

Init == InitWith(MaxProg, InitRegisterFiles)
Next == Enter \/ Step(Menu) \/ Return
Spec == Init /\ [][Next]_vars

InitMem == InitWith(MaxMemProg, InitMemRegisterFiles)
NextMem == Enter \/ Step(MemMenu) \/ Return
SpecMem == InitMem /\ [][NextMem]_vars

InitArith == InitWith(MaxArithProg, InitRegisterFiles)
NextArith == Enter \/ Step(ArithMenu) \/ Return
SpecArith == InitArith /\ [][NextArith]_vars

InitStore == InitWith(MaxStoreProg, InitStoreRegisterFiles)
NextStore == Enter \/ Step(StoreMenu) \/ Return
SpecStore == InitStore /\ [][NextStore]_vars

\* The instructions of the programs of SpecOperands: SLT, BNE and the
\* arithmetic opcodes with register 0 as a source, as the destination and not
\* at all, with the comparison true, false and between equal registers, and
\* with register indices outside 0 .. 31.
OperandMenu ==
    { Instr("SLT", <<3, 1, 2>>),
      Instr("SLT", <<3, 2, 1>>),
      Instr("SLT", <<1, 1, 3>>),
      Instr("SLT", <<2, 3, 3>>),
      Instr("SLT", <<2, 3, 1>>),
      Instr("SLT", <<3, 0, 2>>),
      Instr("SLT", <<2, 3, 0>>),
      Instr("SLT", <<0, 1, 2>>),
      Instr("SLT", <<3, 32, 1>>),
      Instr("SLT", <<3, 1, -1>>),
      Instr("SLT", <<32, 1, 2>>),
      Instr("BNE", <<1, 2, 1>>),
      Instr("BNE", <<0, 2, 1>>),
      Instr("BNE", <<1, 0, 1>>),
      Instr("BNE", <<0, 0, 1>>),
      Instr("BNE", <<1, 32, 1>>),
      Instr("ADD", <<1, 2, 3>>),
      Instr("ADD", <<1, 0, 2>>),
      Instr("ADD", <<1, 2, 0>>),
      Instr("ADD", <<0, 1, 2>>),
      Instr("SUB", <<2, 0, 1>>),
      Instr("ADDI", <<2, 0, 4>>),
      Instr("SUBI", <<3, 0, 1>>),
      Instr("SUBI", <<3, 3, 7>>),
      Instr("HALT", <<>>) }

InitOperands == InitWith(MaxOperandProg, InitRegisterFiles)
NextOperands == Enter \/ Step(OperandMenu) \/ Return
SpecOperands == InitOperands /\ [][NextOperands]_vars

\* The instructions of the programs of SpecFault: for every handler an
\* instruction that it rejects (a register index, an immediate, an offset, a
\* jump target, an address, a cache code, an opcode), the instructions that
\* make a cache line dirty before a miss that faults, and instructions that
\* succeed.
FaultMenu ==
    { Instr("ADD", <<1, 2, 32>>),
      Instr("ADDI", <<0, 1, 1>>),
      Instr("ADDI", <<1, 1, 2 ^ (WORD_BITS - 1)>>),
      Instr("SLT", <<3, 32, 1>>),
      Instr("BNE", <<1, 2, 8192>>),
      Instr("BNE", <<1, 32, 1>>),
      Instr("J", <<-1>>),
      Instr("JAL", <<4>>),
      Instr("JAL", <<-1>>),
      Instr("LW", <<2, -4, 1>>),
      Instr("LW", <<2, 3, 1>>),
      Instr("LW", <<32, 0, 1>>),
      Instr("LW", <<3, 0, 1>>),
      Instr("SW", <<2, 0, 1>>),
      Instr("SW", <<2, MEMORY_SIZE, 1>>),
      Instr("CACHE", <<1>>),
      Instr("CACHE", <<3>>),
      Instr("INVALID_OP", <<1, 2>>),
      Instr("HALT", <<>>) }

InitFault == InitWith(MaxFaultProg, InitMemRegisterFiles)
NextFault == Enter \/ Step(FaultMenu) \/ Return
SpecFault == InitFault /\ [][NextFault]_vars

(***************************************************************************)
(* SpecUnits: a caller uses a fresh MemoryBus and Cache.decode_address     *)
(* directly.  last records the call (the method as op, its arguments), how *)
(* it ended and, in value, what it returned; stored records the stores.    *)
(***************************************************************************)
\* The arguments of the calls: every address from below 0 to past the end of
\* the Word Store for loads and for stores of one value, a few addresses for
\* stores of values at and past the ends of the word, byte addresses up to
\* twice the size of the Word Store and the two addresses of the cache unit
\* tests for decode_address.
BusAddresses == -2 .. (MEMORY_SIZE + 1)
BusValues == {0, -1, 2 ^ WORD_BITS, 2 ^ WORD_BITS + 5}
StoreCalls ==
    (BusAddresses \X {5}) \cup ({-1, 0, 5, MEMORY_SIZE - 1, MEMORY_SIZE} \X BusValues)
DecodeAddresses == (0 .. (2 * MEMORY_SIZE - 1)) \cup {262144, 1048575}
\* The tags passed to _block_base_address: those of the Word Store's blocks,
\* tags past its end and a negative one.
BlockTags == -1 .. MemBlocks

UnitCall(method, args, ok, value) ==
    [result |-> IF ok THEN "ok" ELSE "fault", instr |-> Instr(method, args),
     pc |-> pc, before |-> <<MachineState>>, stored |-> stored, value |-> value]

StoreCalled(a, v, r) ==
    /\ memory' = r.storage
    /\ last' = UnitCall("store_word", <<a, v>>, r.ok, <<>>)
    /\ stored' = IF r.ok
                 THEN [stored EXCEPT ![a] = <<BitAnd(v, WORD_MASK)>>]
                 ELSE stored

\* memory.store_word(a, v)
CallStoreWord ==
    /\ steps < MaxUnitCalls
    /\ steps' = steps + 1
    /\ \E c \in StoreCalls : StoreCalled(c[1], c[2], store_word(memory, c[1], c[2]))
    /\ UNCHANGED <<registers, pc, load_instructions, cache, halted, ctl, calls>>

LoadCalled(a, r) ==
    last' = UnitCall("load_word", <<a>>, r.ok, IF r.ok THEN <<r.val>> ELSE <<>>)

\* memory.load_word(a)
CallLoadWord ==
    /\ steps < MaxUnitCalls
    /\ steps' = steps + 1
    /\ \E a \in BusAddresses : LoadCalled(a, load_word(memory, a))
    /\ UNCHANGED <<registers, pc, load_instructions, cache, memory, halted,
                   ctl, calls, stored>>

\* cache.decode_address(a)
CallDecodeAddress ==
    /\ steps < MaxUnitCalls
    /\ steps' = steps + 1
    /\ \E a \in DecodeAddresses :
           last' = UnitCall("decode_address", <<a>>, TRUE, <<decode_address(a)>>)
    /\ UNCHANGED <<registers, pc, load_instructions, cache, memory, halted,
                   ctl, calls, stored>>

\* cache._block_base_address(tag, index)
CallBlockBaseAddress ==
    /\ steps < MaxUnitCalls
    /\ steps' = steps + 1
    /\ \E tag \in BlockTags, index \in Lines :
           last' = UnitCall("_block_base_address", <<tag, index>>, TRUE,
                            <<block_base_address(tag, index)>>)
    /\ UNCHANGED <<registers, pc, load_instructions, cache, memory, halted,
                   ctl, calls, stored>>

InitUnits == InitWith(0, {RegisterFile(0, 0, 0)}) /\ memory = ZeroStorage
NextUnits ==
    CallStoreWord \/ CallLoadWord \/ CallDecodeAddress \/ CallBlockBaseAddress
SpecUnits == InitUnits /\ [][NextUnits]_vars

(***************************************************************************)
(* SpecTwin: a CPU as CPU() constructs it (registers and Word Store all    *)
(* zero) runs a whole program that enables the cache first; the program    *)
(* sets its registers itself.  run_uncached is execute_instructions on a   *)
(* CPU whose cache is never enabled, as a function of the program.         *)
(***************************************************************************)
\* The instructions after the leading CACHE 1: they build a word-aligned or
\* an unaligned base address in register 1 and a negative value in register
\* 2, store and load through them, in the same block and in a conflicting
\* one, and halt.
TwinMenu ==
    { Instr("ADDI", <<1, 1, 4>>),
      Instr("ADDI", <<1, 1, 5>>),
      Instr("ADDI", <<2, 2, -1>>),
      Instr("SW", <<1, 0, 1>>),
      Instr("SW", <<2, 16, 1>>),
      Instr("LW", <<3, 0, 1>>),
      Instr("LW", <<3, 16, 1>>),
      Instr("HALT", <<>>) }

\* The programs the loader has loaded: CACHE 1, then instructions of TwinMenu.
TwinPrograms ==
    {<<Instr("CACHE", <<1>>)>> \o body :
        body \in UNION {[1 .. n -> TwinMenu] : n \in 0 .. (MaxTwinProg - 1)}}

\* CPU(): self.registers, self.pc, self.cache, the MemoryBus, self.halted.
NewMachine ==
    [registers |-> RegisterFile(0, 0, 0), pc |-> 0, cache |-> NoCache,
     memory |-> ZeroStorage, halted |-> FALSE]

\* A machine on which CACHE 1 attaches nothing.
never_enabled(s) == [s EXCEPT !.cache = NoCache]

\* execute_instructions with the cache never enabled, at most fuel passes:
\* the state it leaves (also when the fetch raises).
RECURSIVE run_uncached(_, _, _)
uncached_pass(program, s, fuel, instr) ==
    IF instr = EmptyInstruction THEN s
    ELSE run_uncached(program,
             never_enabled(EndPass(s, dispatch_instruction(s, instr.op, instr.args,
                                                           Len(program)))),
             fuel - 1)

run_uncached(program, s, fuel) ==
    IF fuel = 0 \/ ~loop_condition(s.halted, s.pc, Len(program)) THEN s
    ELSE IF ~PyIndexOk(s.pc \div WORD_SIZE, Len(program)) THEN s
    ELSE uncached_pass(program, s, fuel,
             program[PyIndex(s.pc \div WORD_SIZE, Len(program)) + 1])

InitTwin ==
    /\ registers = NewMachine.registers
    /\ pc = NewMachine.pc
    /\ load_instructions \in TwinPrograms
    /\ cache = NewMachine.cache
    /\ memory = NewMachine.memory
    /\ halted = NewMachine.halted
    /\ ctl = "idle"
    /\ calls = 0
    /\ steps = 0
    /\ last = NoPass
    /\ stored = [a \in AddressRange |-> NeverStored]
NextTwin == Enter \/ Step(TwinMenu) \/ Return
SpecTwin == InitTwin /\ [][NextTwin]_vars

(***************************************************************************)
(* SpecCache: a caller uses a Cache in front of a MemoryBus directly, as   *)
(* the cache unit tests do.  stored records, per address, the value of the *)
(* most recent Cache.write.                                                *)
(***************************************************************************)
\* The arguments of the calls: word-aligned addresses inside the Word Store,
\* two of the same block (0 and one word on), one of another block of the
\* same line (one cache size on) and one of the other line; a small value
\* and the largest word.
CacheAddresses == {0, WORD_SIZE, CACHE_SIZE, BLOCK_SIZE * WORD_SIZE}
CacheValues == {7, WORD_MASK}

CacheCalled(method, args, r, value) ==
    /\ cache' = [cache EXCEPT !.blocks = r.blocks]
    /\ memory' = r.storage
    /\ last' = UnitCall(method, args, r.ok, value)

\* cache.write(a, v, memory)
CallCacheWrite ==
    /\ steps < MaxCacheCalls
    /\ steps' = steps + 1
    /\ \E a \in CacheAddresses, v \in CacheValues :
           /\ CacheCalled("write", <<a, v>>, write(cache.blocks, a, v, memory), <<>>)
           /\ stored' = [stored EXCEPT ![a] = <<v>>]
    /\ UNCHANGED <<registers, pc, load_instructions, halted, ctl, calls>>

ReadCalled(a, r) == CacheCalled("read", <<a>>, r, r.val)

\* cache.read(a, memory)
CallCacheRead ==
    /\ steps < MaxCacheCalls
    /\ steps' = steps + 1
    /\ \E a \in CacheAddresses : ReadCalled(a, read(cache.blocks, a, memory))
    /\ UNCHANGED <<registers, pc, load_instructions, halted, ctl, calls, stored>>

\* cache.flush(memory)
CallCacheFlush ==
    /\ steps < MaxCacheCalls
    /\ steps' = steps + 1
    /\ CacheCalled("flush", <<>>, flush(cache.blocks, memory), <<>>)
    /\ UNCHANGED <<registers, pc, load_instructions, halted, ctl, calls, stored>>

\* Cache() in front of a MemoryBus that may hold words already.
InitCache ==
    /\ registers = RegisterFile(0, 0, 0)
    /\ pc = 0
    /\ load_instructions = <<>>
    /\ cache = NewCache
    /\ memory \in InitStorages
    /\ halted = FALSE
    /\ ctl = "idle"
    /\ calls = 0
    /\ steps = 0
    /\ last = NoPass
    /\ stored = [a \in AddressRange |-> NeverStored]
NextCache == CallCacheWrite \/ CallCacheRead \/ CallCacheFlush
SpecCache == InitCache /\ [][NextCache]_vars

(***************************************************************************)
(* Properties.                                                             *)
(***************************************************************************)
\* The state the last pass started from.
Before == last.before[1]
LastOk(op) == last.result = "ok" /\ last.instr.op = op
LastFault == last.result = "fault"

\* The last pass executed a jump, or a BNE whose registers differed.
TakenControlFlow ==
    \/ last.instr.op \in {"J", "JAL"}
    \/ /\ last.instr.op = "BNE"
       /\ Before.registers[last.instr.args[1]] # Before.registers[last.instr.args[2]]

\* C1: register 0 equals 0 after every instruction execute_instructions
\* executes, whatever the program and the initial registers (register 0 at 0);
\* an LW whose Rt is register 0 does not fault and leaves it 0.
R0Invariant ==
    /\ registers[0] = 0
    /\ (/\ last.result # "none"
        /\ last.instr.op = "LW"
        /\ last.instr.args[1] = 0
        /\ last.instr.args[2] % WORD_SIZE = 0
        /\ EffectiveAddress(Before, last.instr) \in AddressRange)
       => last.result = "ok"

\* An LW into register 0 has just loaded a non-zero word without faulting.
R0Witness ==
    /\ LastOk("LW")
    /\ last.instr.args[1] = 0
    /\ ~Before.cache.attached
    /\ Before.memory[EffectiveAddress(Before, last.instr)] # 0

\* C2: when a handler raises, the machine is halted with PC at the faulting
\* instruction's address, and no further pass through the loop happens.
FailHalt ==
    /\ [](LastFault => halted /\ pc = last.pc)
    /\ [][LastFault => steps' = steps /\ last' = last]_vars

\* The second instruction faulted on an unknown opcode, and execute_instructions
\* has been called again since.
FailHaltWitness ==
    /\ LastFault
    /\ last.instr.op = "INVALID_OP"
    /\ last.pc = WORD_SIZE
    /\ calls = 2

\* C3 (as claimed): when execute_instructions has returned with PC at or past
\* the end of the program, after passes none of which faulted, halted is true.
RunOffEndHalts ==
    (/\ ctl = "idle"
     /\ calls > 0
     /\ last.result = "ok"
     /\ pc >= Len(load_instructions) * WORD_SIZE)
    => halted

\* C4 (as claimed): PC is never negative, and every fetch happens at a PC
\* within [0, program_length * word_size).
PCInProgramRange ==
    /\ pc >= 0
    /\ last.result # "none" =>
          0 <= last.pc /\ last.pc < Len(load_instructions) * WORD_SIZE

\* C5 (as claimed): no exception leaves execute_instructions.
NoErrorEscapes == ctl # "crashed"

\* C6: PC is a multiple of word_size in every state, and a pass that raised
\* nothing and was no jump and no taken branch advanced PC by word_size.
PCAligned ==
    /\ pc % WORD_SIZE = 0
    /\ (last.result = "ok" /\ ~TakenControlFlow) => pc = last.pc + WORD_SIZE

\* A BNE whose registers were equal has just fallen through, at a PC other
\* than 0.
PCAlignedWitness ==
    /\ LastOk("BNE")
    /\ ~TakenControlFlow
    /\ last.pc > 0

\* C7: a HALT that raised nothing leaves halted true and PC one word past the
\* HALT, while a fault leaves PC at the faulting instruction.
HaltPC ==
    /\ LastOk("HALT") => halted /\ pc = last.pc + WORD_SIZE
    /\ LastFault => halted /\ pc = last.pc

\* The program [ADD R1,R2,R3; HALT] with R2 = 5 and R3 = 10 has run.
HaltPCWitness ==
    /\ LastOk("HALT")
    /\ Len(load_instructions) = 2
    /\ load_instructions[1] = Instr("ADD", <<1, 2, 3>>)
    /\ Before.registers[2] = 5
    /\ Before.registers[3] = 10
    /\ registers[1] = 15
    /\ halted
    /\ pc = 2 * WORD_SIZE

NoDirtyLine == \A i \in Lines : ~cache.blocks[i].dirty

\* C8 (as claimed): after a HALT with a cache attached no line is dirty and
\* the Word Store holds, at every address an SW stored to, the low bits of
\* the last value stored there.
HaltFlushes ==
    (LastOk("HALT") /\ Before.cache.attached) =>
        /\ NoDirtyLine
        /\ \A a \in AddressRange :
              stored[a] # NeverStored => <<memory[a]>> = stored[a]

\* C8 for the word-aligned addresses only.
HaltFlushesAligned ==
    (LastOk("HALT") /\ Before.cache.attached) =>
        /\ NoDirtyLine
        /\ \A a \in AddressRange :
              (stored[a] # NeverStored /\ a % WORD_SIZE = 0)
                  => <<memory[a]>> = stored[a]

\* C9: once halted is true no pass through the loop happens: registers, PC,
\* Word Store and cache stay as they are.
HaltedTerminal ==
    [][halted => UNCHANGED <<registers, pc, memory, cache, steps, halted>>]_vars

\* execute_instructions was called on a halted machine and has returned.
HaltedTerminalWitness == halted /\ calls = 2 /\ ctl = "idle"

\* C10: right after an SW through the cache to address a, Cache.read(a)
\* returns the one-element list holding the value written.
CacheRoundTrip ==
    (LastOk("SW") /\ Before.cache.attached) =>
        read(cache.blocks, EffectiveAddress(Before, last.instr), memory).val
            = <<Before.registers[last.instr.args[1]]>>

\* The SW hit a dirty line and overwrote a different value written earlier at
\* the same address.
CacheRoundTripWitness ==
    /\ LastOk("SW")
    /\ Before.cache.attached
    /\ last.stored[EffectiveAddress(Before, last.instr)] \notin
           {NeverStored,
            <<BitAnd(Before.registers[last.instr.args[1]], WORD_MASK)>>}
    /\ hit_or_miss(
           Before.cache.blocks[decode_address(
               EffectiveAddress(Before, last.instr)).index],
           decode_address(EffectiveAddress(Before, last.instr)).tag)
    /\ Before.cache.blocks[decode_address(
           EffectiveAddress(Before, last.instr)).index].dirty

\* The last pass was an LW or SW that reached the cache.
LastAccess ==
    /\ last.result \in {"ok", "fault"}
    /\ last.instr.op \in {"LW", "SW"}
    /\ Before.cache.attached
    /\ validate_offset(last.instr.args[2], WORD_SIZE)
    /\ valid_registers({last.instr.args[1], last.instr.args[3]}, TRUE)

LastAddress == EffectiveAddress(Before, last.instr)
LastLine == decode_address(LastAddress)
\* The line the access found at its index, and whether it missed.
OldLine == Before.cache.blocks[LastLine.index]
LastMiss == ~hit_or_miss(OldLine, LastLine.tag)
OldBase == block_base_address(OldLine.tag, LastLine.index)
NewBase == block_base_address(LastLine.tag, LastLine.index)
OldBlockAddresses == {OldBase + i * WORD_SIZE : i \in Offsets}

\* C11: an access that misses on a valid dirty line leaves all block_size
\* words of that line in the Word Store at the old line's base address, every
\* other word as it was, and the new line holds what the Word Store has at
\* the new base address; an access that finds any other line leaves the Word
\* Store alone.
WriteBackOnEviction ==
    LastAccess =>
        /\ IF LastMiss /\ OldLine.valid /\ OldLine.dirty
           THEN \A a \in AddressRange :
                    memory[a] =
                        IF a \in OldBlockAddresses
                        THEN BitAnd(OldLine.data[(a - OldBase) \div WORD_SIZE],
                                    WORD_MASK)
                        ELSE Before.memory[a]
           ELSE memory = Before.memory
        /\ (LastMiss /\ last.result = "ok") =>
               /\ cache.blocks[LastLine.index].tag = LastLine.tag
               /\ cache.blocks[LastLine.index].valid
               /\ \A i \in Offsets :
                      (last.instr.op = "LW" \/ i # LastLine.offset) =>
                          cache.blocks[LastLine.index].data[i]
                              = memory[NewBase + i * WORD_SIZE]

\* A line holding words the Word Store did not have has just been evicted by
\* an access to another block.
WriteBackOnEvictionWitness ==
    /\ LastAccess
    /\ last.result = "ok"
    /\ LastMiss
    /\ OldLine.valid
    /\ OldLine.dirty
    /\ OldLine.tag # LastLine.tag
    /\ \E i \in Offsets :
           Before.memory[OldBase + i * WORD_SIZE]
               # BitAnd(OldLine.data[i], WORD_MASK)

\* The last pass called Cache.flush: CACHE 0 or CACHE 2 or HALT, with a cache
\* attached.
LastFlush ==
    /\ last.result \in {"ok", "fault"}
    /\ Before.cache.attached
    /\ \/ last.instr.op = "HALT"
       \/ last.instr.op = "CACHE" /\ last.instr.args \in {<<0>>, <<2>>}

DirtyLines(blocks) == {i \in Lines : blocks[i].valid /\ blocks[i].dirty}

\* C12: after Cache.flush, which raises nothing, no line is dirty.
FlushClearsDirty ==
    LastFlush =>
        /\ last.result = "ok"
        /\ DirtyLines(cache.blocks) = {}
        /\ \A i \in Lines : ~cache.blocks[i].dirty

\* Cache.flush has run (CACHE 2) on a cache both of whose lines were dirty.
FlushClearsDirtyWitness ==
    /\ LastFlush
    /\ last.instr = Instr("CACHE", <<2>>)
    /\ DirtyLines(Before.cache.blocks) = Lines
    /\ cache.attached

\* The words of the valid dirty lines of blocks, as <<line, word>> pairs, that
\* belong at byte address a.
DirtyWordsAt(blocks, a) ==
    {w \in DirtyLines(blocks) \X Offsets :
        a = block_base_address(blocks[w[1]].tag, w[1]) + w[2] * WORD_SIZE}

FlushedWord(blocks, w) == BitAnd(blocks[w[1]].data[w[2]], WORD_MASK)

\* C13: after Cache.flush the Word Store holds, at base_address(tag, index) +
\* i * word_size, the low bits of data[i] of every line that was valid and
\* dirty, and every other word of the Word Store is as it was.
FlushPersists ==
    LastFlush =>
        \A a \in AddressRange :
            IF DirtyWordsAt(Before.cache.blocks, a) # {}
            THEN \A w \in DirtyWordsAt(Before.cache.blocks, a) :
                     memory[a] = FlushedWord(Before.cache.blocks, w)
            ELSE memory[a] = Before.memory[a]

\* A flush has written a word wider than the Word Store's word, in the second
\* word of a line, and has left a non-zero word of another block alone.
FlushPersistsWitness ==
    /\ LastFlush
    /\ \E a \in AddressRange :
           \E w \in DirtyWordsAt(Before.cache.blocks, a) :
               /\ w[2] = BLOCK_SIZE - 1
               /\ Before.cache.blocks[w[1]].data[w[2]] < 0
               /\ memory[a] # Before.memory[a]
    /\ \E a \in AddressRange :
           /\ DirtyWordsAt(Before.cache.blocks, a) = {}
           /\ memory[a] # 0

\* C14 (as claimed): after a pass that executed J or JAL with a target in
\* [0, program_length), the jump's own index included, PC is target * word_size.
JumpSetsPC ==
    (LastOk("J") \/ LastOk("JAL")) => pc = last.instr.args[1] * WORD_SIZE

\* C15 (as claimed): after a BNE that raised nothing PC is the BNE's address
\* + word_size + k * word_size when the registers differed (k = -1 included),
\* and the BNE's address + word_size when they were equal.
BranchPC ==
    LastOk("BNE") =>
        pc = IF Before.registers[last.instr.args[1]]
                  # Before.registers[last.instr.args[2]]
             THEN last.pc + WORD_SIZE + last.instr.args[3] * WORD_SIZE
             ELSE last.pc + WORD_SIZE

\* The last pass dispatched a J or a JAL that has its target token.
LastJump ==
    /\ last.result \in {"ok", "fault"}
    /\ last.instr.op \in {"J", "JAL"}
    /\ Len(last.instr.args) = 1

\* C16: J and JAL raise exactly when the target is not an index of the
\* program (program_length - 1 is the largest that is), and then the machine
\* is halted with PC and every register, the link register included, as
\* they were.
InvalidJumpTarget ==
    LastJump =>
        /\ last.result = "fault" <=>
               ~(last.instr.args[1] \in 0 .. (Len(load_instructions) - 1))
        /\ last.result = "fault" =>
               /\ halted
               /\ pc = last.pc
               /\ registers = Before.registers

\* A JAL whose target is program_length has faulted.
InvalidJumpTargetWitness ==
    /\ LastJump
    /\ last.instr.op = "JAL"
    /\ last.result = "fault"
    /\ last.instr.args[1] = Len(load_instructions)

\* The state execute_jump left when the last pass dispatched its jump.
JumpHandlerResult ==
    execute_jump(Before, last.instr.args, last.instr.op = "JAL",
                 Len(load_instructions)).s

LastArith ==
    /\ last.result \in {"ok", "fault"}
    /\ last.instr.op \in {"ADD", "SUB", "ADDI", "SUBI"}
    /\ Len(last.instr.args) = 3

LastImmediate == last.instr.op \in {"ADDI", "SUBI"}
Rd == last.instr.args[1]
Rs == last.instr.args[2]
\* The third token: Rt of ADD/SUB, the immediate of ADDI/SUBI.
Third == last.instr.args[3]

\* Register operands the instruction set allows: Rd in 1 .. 31, Rs (and Rt of
\* ADD/SUB) in 0 .. 31.
ValidArithRegisters ==
    /\ Rd \in 1 .. (BUS_LENGTH - 1)
    /\ Rs \in RegisterIndices
    /\ LastImmediate \/ Third \in RegisterIndices

SecondOperand == IF LastImmediate THEN Third ELSE Before.registers[Third]

ArithResult ==
    IF last.instr.op \in {"ADD", "ADDI"}
    THEN Before.registers[Rs] + SecondOperand
    ELSE Before.registers[Rs] - SecondOperand

\* C18 (as claimed): ADD/SUB/ADDI/SUBI with valid register operands (and an
\* immediate in the signed word range) set Rd to Rs op Rt or Rs op imm,
\* computed from the values before the write, and change no other register,
\* no word of the Word Store and nothing in the cache.
ArithmeticSetsRd ==
    (/\ LastArith
     /\ ValidArithRegisters
     /\ LastImmediate => validate_immediate_value(Third))
    => /\ last.result = "ok"
       /\ registers = [Before.registers EXCEPT ![Rd] = ArithResult]
       /\ memory = Before.memory
       /\ cache = Before.cache

\* C19 (as claimed): ADD/SUB/ADDI/SUBI fault, halting the machine with no
\* register written, whenever Rd or Rs, or Rt of ADD/SUB, is not in 0 .. 31
\* (negative indices included) or Rd is register 0.
ArithmeticRegisterFault ==
    (/\ LastArith
     /\ \/ Rd \notin RegisterIndices
        \/ Rs \notin RegisterIndices
        \/ ~LastImmediate /\ Third \notin RegisterIndices
        \/ Rd = 0)
    => /\ last.result = "fault"
       /\ halted
       /\ registers = Before.registers

\* The signed values a word holds.
SignedWord == -(2 ^ (WORD_BITS - 1)) .. (2 ^ (WORD_BITS - 1) - 1)

\* C20 (as claimed): every register holds a signed word in every reachable
\* state, the register file having started in range.
RegisterWidth == \A i \in RegisterIndices : registers[i] \in SignedWord

\* The last pass dispatched an instruction that carries an offset: LW, SW or
\* BNE with its three tokens.
LastOffsetInstr ==
    /\ last.result \in {"ok", "fault"}
    /\ last.instr.op \in {"LW", "SW", "BNE"}
    /\ Len(last.instr.args) = 3

\* The offset _validate_offset sees: the LW/SW offset, the BNE word count
\* times word_size.
LastOffset ==
    IF last.instr.op = "BNE"
    THEN last.instr.args[3] * WORD_SIZE
    ELSE last.instr.args[2]

GoodOffset(o) == o % WORD_SIZE = 0 /\ -32768 <= o /\ o <= 32767

\* C21: an LW, SW or BNE whose offset is not a multiple of word_size within
\* [-32768, 32767] faults, and the machine is halted with PC, registers,
\* Word Store and cache as they were; a BNE whose offset is one faults only
\* on a register operand.
OffsetFault ==
    LastOffsetInstr =>
        /\ ~GoodOffset(LastOffset) =>
               /\ last.result = "fault"
               /\ halted
               /\ pc = last.pc
               /\ registers = Before.registers
               /\ memory = Before.memory
               /\ cache = Before.cache
        /\ (/\ last.instr.op = "BNE"
            /\ GoodOffset(LastOffset)
            /\ last.instr.args[1] \in 1 .. 31
            /\ last.instr.args[2] \in 1 .. 31) => last.result = "ok"

\* An LW with a misaligned offset has faulted although its address was in
\* the Word Store and a cache was attached.
OffsetFaultWitness ==
    /\ LastOffsetInstr
    /\ last.instr.op = "LW"
    /\ last.instr.args[2] % WORD_SIZE # 0
    /\ LastAddress \in AddressRange
    /\ Before.cache.attached
    /\ last.result = "fault"

\* The word SW stores: the low bits of Rt.
StoredWord == BitAnd(Before.registers[last.instr.args[1]], WORD_MASK)

\* C22: with no cache attached, an SW at an address in the Word Store puts
\* the low bits of Rt there and an LW sets Rt to the word there (register 0
\* stays 0), register 0 being accepted as Rs and as Rt; no other word and no
\* other register changes.
UncachedAccess ==
    (/\ LastOffsetInstr
     /\ last.instr.op \in {"LW", "SW"}
     /\ ~Before.cache.attached
     /\ GoodOffset(LastOffset)
     /\ last.instr.args[1] \in RegisterIndices
     /\ last.instr.args[3] \in RegisterIndices
     /\ LastAddress \in AddressRange)
    => /\ last.result = "ok"
       /\ ~cache.attached
       /\ IF last.instr.op = "SW"
          THEN /\ memory = [Before.memory EXCEPT ![LastAddress] = StoredWord]
               /\ registers = Before.registers
          ELSE /\ memory = Before.memory
               /\ registers =
                      [Before.registers EXCEPT ![last.instr.args[1]] =
                          IF last.instr.args[1] = 0 THEN 0
                          ELSE Before.memory[LastAddress]]

\* An SW with register 0 as Rs has stored a negative register at a non-zero
\* offset.
UncachedAccessWitness ==
    /\ LastOk("SW")
    /\ ~Before.cache.attached
    /\ last.instr.args[3] = 0
    /\ last.instr.args[2] > 0
    /\ Before.registers[last.instr.args[1]] < 0
    /\ memory[LastAddress] # Before.memory[LastAddress]

\* C23: with a cache attached the Word Store changes only in a pass whose
\* access evicts a valid dirty line or whose instruction flushes a cache
\* holding a dirty line; an SW leaves the word it addresses in the Word Store
\* as it was, and an SW that hits leaves the whole Word Store as it was.
WriteBackPolicy ==
    (last.result \in {"ok", "fault"} /\ Before.cache.attached) =>
        /\ memory # Before.memory =>
               \/ LastAccess /\ LastMiss /\ OldLine.valid /\ OldLine.dirty
               \/ LastFlush /\ DirtyLines(Before.cache.blocks) # {}
        /\ (LastAccess /\ last.instr.op = "SW"
                /\ LastAddress \in AddressRange) =>
               memory[LastAddress] = Before.memory[LastAddress]
        /\ (LastAccess /\ last.instr.op = "SW" /\ ~LastMiss) =>
               memory = Before.memory

\* An SW has hit a line and written a word that the Word Store does not hold
\* at that address.
WriteBackPolicyWitness ==
    /\ LastAccess
    /\ LastOk("SW")
    /\ ~LastMiss
    /\ LastAddress % WORD_SIZE = 0
    /\ StoredWord # memory[LastAddress]
    /\ cache.blocks[LastLine.index].data[LastLine.offset]
           = Before.registers[last.instr.args[1]]

LastCache(code) ==
    /\ last.result \in {"ok", "fault"}
    /\ last.instr = Instr("CACHE", <<code>>)

\* The pass raised nothing and changed nothing but PC, which advanced.
LastNoOp ==
    /\ last.result = "ok"
    /\ ~halted
    /\ pc = last.pc + WORD_SIZE
    /\ registers = Before.registers
    /\ memory = Before.memory
    /\ cache = Before.cache

\* C24 (as claimed): after CACHE 0 with a cache attached no cache is
\* attached and the Word Store, which serves the LWs that follow, holds at
\* every address an SW stored to the low bits of the last value stored there;
\* CACHE 0 with no cache attached changes nothing and raises nothing.
CacheDisable ==
    LastCache(0) =>
        IF Before.cache.attached
        THEN /\ last.result = "ok"
             /\ ~cache.attached
             /\ \A a \in AddressRange :
                    stored[a] # NeverStored => <<memory[a]>> = stored[a]
        ELSE LastNoOp

\* C25: CACHE 1 with no cache attached attaches a cache whose lines are all
\* invalid and clean, whatever an earlier cache held; with a cache attached
\* it changes no line of it.
CacheEnable ==
    LastCache(1) =>
        IF Before.cache.attached
        THEN LastNoOp
        ELSE /\ last.result = "ok"
             /\ cache.attached
             /\ \A i \in Lines :
                    ~cache.blocks[i].valid /\ ~cache.blocks[i].dirty
             /\ memory = Before.memory
             /\ registers = Before.registers

\* CACHE 1, an SW, CACHE 0 and CACHE 1 again have run, the SW through the
\* cache.
CacheEnableWitness ==
    /\ LastCache(1)
    /\ last.pc = 3 * WORD_SIZE
    /\ ~Before.cache.attached
    /\ load_instructions[1] = Instr("CACHE", <<1>>)
    /\ load_instructions[2].op = "SW"
    /\ load_instructions[3] = Instr("CACHE", <<0>>)
    /\ steps = 4
    /\ memory # ZeroStorage

\* C26: CACHE 2 with no cache attached raises nothing, does not halt, leaves
\* registers and Word Store as they were and advances PC by word_size.
CacheFlushAbsent == (LastCache(2) /\ ~Before.cache.attached) => LastNoOp

\* CACHE 1, CACHE 0 and CACHE 2 have run in this order.
CacheFlushAbsentWitness ==
    /\ LastCache(2)
    /\ last.pc = 2 * WORD_SIZE
    /\ load_instructions[1] = Instr("CACHE", <<1>>)
    /\ load_instructions[2] = Instr("CACHE", <<0>>)
    /\ steps = 3
    /\ ~cache.attached

\* C27: a CACHE whose code is not 0, 1 or 2 faults: the machine is halted,
\* and the cache attachment, every line and the Word Store are as they were.
CacheInvalidCode ==
    (/\ last.result \in {"ok", "fault"}
     /\ last.instr.op = "CACHE"
     /\ Len(last.instr.args) = 1
     /\ last.instr.args[1] \notin {0, 1, 2})
    => /\ last.result = "fault"
       /\ halted
       /\ pc = last.pc
       /\ cache = Before.cache
       /\ memory = Before.memory

\* CACHE 3 has faulted with a cache attached that holds a dirty line.
CacheInvalidCodeWitness ==
    /\ LastFault
    /\ last.instr = Instr("CACHE", <<3>>)
    /\ cache.attached
    /\ DirtyLines(cache.blocks) # {}

LastCall(method) == last.result \in {"ok", "fault"} /\ last.instr.op = method
\* The address argument of the last call.
CallAddress == last.instr.args[1]

\* C28: load_word(a) and store_word(a, v) raise exactly when a is outside
\* [0, memory_size), and a store_word that raised left every word as it was.
BusRangeCheck ==
    (LastCall("load_word") \/ LastCall("store_word")) =>
        /\ last.result = "ok" <=> (0 <= CallAddress /\ CallAddress < MEMORY_SIZE)
        /\ last.result = "fault" => memory = Before.memory

\* A store_word at address memory_size has raised on a Word Store that holds
\* a word written before.
BusRangeCheckWitness ==
    /\ LastCall("store_word")
    /\ CallAddress = MEMORY_SIZE
    /\ last.result = "fault"
    /\ memory # ZeroStorage

\* C29: load_word returns 0 at an address never written and otherwise the
\* word last stored there; after store_word(a, v) the word at a is v mod 2^w
\* (w the word width), load_word(a) returns it and no other word changed;
\* every word of the Word Store is in [0, 2^w).
BusContents ==
    /\ \A a \in AddressRange : 0 <= memory[a] /\ memory[a] < 2 ^ WORD_BITS
    /\ (LastCall("load_word") /\ last.result = "ok") =>
           /\ last.value = IF stored[CallAddress] = NeverStored
                           THEN <<0>> ELSE stored[CallAddress]
           /\ last.value = <<Before.memory[CallAddress]>>
           /\ memory = Before.memory
    /\ (LastCall("store_word") /\ last.result = "ok") =>
           /\ memory = [Before.memory EXCEPT ![CallAddress] =
                                   last.instr.args[2] % (2 ^ WORD_BITS)]
           /\ load_word(memory, CallAddress).val
                  = last.instr.args[2] % (2 ^ WORD_BITS)

\* The word stored as -1 at the last address has just been loaded as the
\* largest word.
BusContentsWitness ==
    /\ LastCall("load_word")
    /\ last.result = "ok"
    /\ CallAddress = MEMORY_SIZE - 1
    /\ Before.memory # ZeroStorage
    /\ last.value = <<WORD_MASK>>

\* The word address of the decoded byte address.
DecodedWord == CallAddress \div WORD_SIZE

DecodeAsTested ==
    LastCall("decode_address") =>
        /\ last.value[1].tag = Shr(CallAddress, get_offset_bits + get_index_bits)
        /\ last.value[1].index
               = BitAnd(Shr(CallAddress, get_offset_bits), cache_lines - 1)
        /\ last.value[1].offset = BitAnd(CallAddress, BLOCK_SIZE - 1)

\* The base address the last call of _block_base_address returned.
BaseAddress == last.value[1]
\* The word-aligned byte addresses up to twice the size of the Word Store.
WordAddresses == {w * WORD_SIZE : w \in 0 .. (2 * MemBlocks * BLOCK_SIZE - 1)}

\* C32: for every (tag, index), index < cache_lines, and every word offset
\* o < block_size, decode_address(_block_base_address(tag, index) + o *
\* word_size) is (tag, index, o); so the word addresses a write-back of the
\* line stores to are exactly the word addresses that decode to the line.
DecodeEncodeSymmetry ==
    LastCall("_block_base_address") =>
        /\ \A o \in Offsets :
               decode_address(BaseAddress + o * WORD_SIZE)
                   = [tag |-> last.instr.args[1], index |-> last.instr.args[2],
                      offset |-> o]
        /\ \A a \in WordAddresses :
               (\E o \in Offsets : a = BaseAddress + o * WORD_SIZE)
                   <=> /\ decode_address(a).tag = last.instr.args[1]
                       /\ decode_address(a).index = last.instr.args[2]

\* The base address of a line with a non-zero tag and index was built.
DecodeEncodeSymmetryWitness ==
    /\ LastCall("_block_base_address")
    /\ last.instr.args[1] > 0
    /\ last.instr.args[2] > 0
    /\ BaseAddress \in WordAddresses

LastSlt ==
    /\ last.result \in {"ok", "fault"}
    /\ last.instr.op = "SLT"
    /\ Len(last.instr.args) = 3

\* C33 (as claimed): SLT Rd, Rs, Rt with valid register operands (Rd in
\* 1 .. 31, Rs and Rt in 0 .. 31) sets Rd to 1 if the signed value of Rs is
\* below that of Rt and to 0 otherwise, and changes no other register.
SltSetsRd ==
    (/\ LastSlt
     /\ Rd \in 1 .. (BUS_LENGTH - 1)
     /\ Rs \in RegisterIndices
     /\ Third \in RegisterIndices)
    => /\ last.result = "ok"
       /\ registers[Rd] \in {0, 1}
       /\ registers = [Before.registers EXCEPT ![Rd] =
              IF Before.registers[Rs] < Before.registers[Third] THEN 1 ELSE 0]

\* An ADD/SUB/ADDI/SUBI, SLT or BNE was dispatched.
LastOperands ==
    /\ last.result \in {"ok", "fault"}
    /\ last.instr.op \in {"ADD", "SUB", "ADDI", "SUBI", "SLT", "BNE"}
    /\ Len(last.instr.args) = 3

\* Its register indices are in 0 .. 31, its destination (BNE has none) is not
\* register 0, and its immediate or offset is in range.
LegalOperands ==
    IF last.instr.op = "BNE"
    THEN /\ Rd \in RegisterIndices
         /\ Rs \in RegisterIndices
         /\ INT16_MIN <= Third * WORD_SIZE /\ Third * WORD_SIZE <= INT16_MAX
    ELSE /\ Rd \in 1 .. (BUS_LENGTH - 1)
         /\ Rs \in RegisterIndices
         /\ IF LastImmediate
            THEN Third \in SignedWord
            ELSE Third \in RegisterIndices

\* What the instruction does when every register is read as it was before.
OperandsEffect ==
    IF last.instr.op = "BNE"
    THEN /\ registers = Before.registers
         /\ pc = Before.pc + WORD_SIZE
                 + (IF Before.registers[Rd] # Before.registers[Rs]
                    THEN Third * WORD_SIZE ELSE 0)
    ELSE /\ pc = Before.pc + WORD_SIZE
         /\ registers = [Before.registers EXCEPT ![Rd] =
                IF last.instr.op = "SLT"
                THEN (IF Before.registers[Rs] < Before.registers[Third]
                      THEN 1 ELSE 0)
                ELSE ArithResult]

\* C40 (as claimed): ADD/SUB/ADDI/SUBI, SLT and BNE whose register indices
\* are in 0 .. 31 and whose destination is not register 0 do not fault,
\* register 0 among the sources included, and a source register 0 is read as
\* 0; only an index outside 0 .. 31 or register 0 as the destination is a
\* register fault.
SourceR0Legal ==
    (LastOperands /\ LegalOperands)
        => /\ last.result = "ok"
           /\ Before.registers[0] = 0
           /\ OperandsEffect

\* Line i was valid and dirty before the last pass and is now the same line
\* marked clean: _write_back has stored it.
WrittenBack(i) ==
    /\ Before.cache.blocks[i].valid
    /\ Before.cache.blocks[i].dirty
    /\ cache.blocks[i] = [Before.cache.blocks[i] EXCEPT !.dirty = FALSE]

\* Address a is a word of a line the last pass wrote back, and holds that
\* word.
WrittenBackWord(a) ==
    \E i \in Lines, o \in Offsets :
        /\ WrittenBack(i)
        /\ a = block_base_address(Before.cache.blocks[i].tag, i) + o * WORD_SIZE
        /\ memory[a] = Before.cache.blocks[i].data[o] % (2 ^ WORD_BITS)

\* C39: after an instruction that faulted, every register (the link
\* register of JAL and Rt of LW included) and PC are as they were before it;
\* halted is set, and the only other change is the write-back of a dirty line
\* to the Word Store.
FaultFrame ==
    LastFault =>
        /\ registers = Before.registers
        /\ pc = Before.pc
        /\ halted
        /\ cache.attached = Before.cache.attached
        /\ \A i \in Lines :
               cache.blocks[i] = Before.cache.blocks[i] \/ WrittenBack(i)
        /\ \A a \in AddressRange :
               memory[a] = Before.memory[a] \/ WrittenBackWord(a)

\* A store through the cache that missed has faulted after the write-back of
\* the dirty line it was to replace.
FaultFrameWitness ==
    /\ LastFault
    /\ last.instr.op = "SW"
    /\ memory # Before.memory
    /\ \E i \in Lines : WrittenBack(i)

\* The last pass was an SW that Cache.write completed.
LastWrite == LastAccess /\ last.instr.op = "SW" /\ last.result = "ok"
\* The line at the index of the address of the last access.
NewLine == cache.blocks[LastLine.index]

\* C34: every Cache.write(a, v), hit or miss, leaves the line at index(a)
\* valid and dirty with tag(a) and data[offset(a)] = v; after a miss the other
\* words of the line are the Word Store's words of the addressed block, after
\* a hit they are as they were.
WriteAllocate ==
    LastWrite =>
        /\ NewLine.valid
        /\ NewLine.dirty
        /\ NewLine.tag = LastLine.tag
        /\ NewLine.data[LastLine.offset] = Before.registers[last.instr.args[1]]
        /\ \A i \in Offsets \ {LastLine.offset} :
               NewLine.data[i] = IF LastMiss
                                 THEN memory[NewBase + i * WORD_SIZE]
                                 ELSE OldLine.data[i]

\* A write has missed and the line it allocated holds, next to the word
\* written, a non-zero word of the Word Store.
WriteAllocateWitness ==
    /\ LastWrite
    /\ LastMiss
    /\ \E i \in Offsets \ {LastLine.offset} :
           /\ NewLine.data[i] # 0
           /\ NewLine.data[i] = Before.memory[NewBase + i * WORD_SIZE]

\* C35 (as claimed): after CACHE 2 with a cache attached every line is
\* invalid and clean and its data is all zero.
FlushInvalidatesAll ==
    (LastFlush /\ last.instr = Instr("CACHE", <<2>>) /\ last.result = "ok") =>
        \A i \in Lines :
            /\ ~cache.blocks[i].valid
            /\ ~cache.blocks[i].dirty
            /\ cache.blocks[i].data = ZeroData

\* C38 (as claimed): with a cache attached, every line that is valid and not
\* dirty holds the Word Store's words of its block.
CleanLineCoherence ==
    cache.attached =>
        \A i \in Lines :
            (cache.blocks[i].valid /\ ~cache.blocks[i].dirty) =>
                \A o \in Offsets :
                    cache.blocks[i].data[o]
                        = memory[block_base_address(cache.blocks[i].tag, i)
                                     + o * WORD_SIZE]

\* C36: whatever Cache.write, Cache.read and Cache.flush calls came before,
\* on word-aligned addresses inside the Word Store and with values that fit
\* a word, Cache.read(a) returns the value of the most recent write to a, or
\* the Word Store's word at a when a was never written.
NoLostWrites ==
    (LastCall("read") /\ CallAddress % WORD_SIZE = 0
                     /\ CallAddress \in AddressRange) =>
        /\ last.result = "ok"
        /\ last.value = IF stored[CallAddress] = NeverStored
                        THEN <<Before.memory[CallAddress]>>
                        ELSE stored[CallAddress]

\* The word read was written, evicted by a write to another block of its
\* line, and the cache was flushed since.
NoLostWritesWitness ==
    /\ LastCall("read")
    /\ CallAddress = 0
    /\ last.value = <<WORD_MASK>>
    /\ stored[CACHE_SIZE] # NeverStored
    /\ memory[0] = WORD_MASK
    /\ memory[CACHE_SIZE] = stored[CACHE_SIZE][1]
    /\ ~Before.cache.blocks[0].valid

\* The state in which the program of this machine leaves a machine whose
\* cache is never enabled.
UncachedRun == run_uncached(load_instructions, NewMachine, MaxSteps)

\* C37 (as claimed): when a program that enables the cache before its first
\* LW/SW has run to HALT, the register file, PC and the Word Store are those
\* the same program leaves on a machine whose cache is never enabled.
CacheTransparency ==
    (LastOk("HALT") /\ load_instructions[1] = Instr("CACHE", <<1>>)) =>
        /\ registers = UncachedRun.registers
        /\ pc = UncachedRun.pc
        /\ memory = UncachedRun.memory
====
